---- MODULE Spec2Model ----
(***************************************************************************)
(* ASCII-Converter (src/src/App.jsx): the image-to-glyph conversion        *)
(* pipeline and the React component that drives it.                        *)
(*                                                                         *)
(*   SpecDither   the numeric pipeline of imageUrlToAscii (quantizeToLevels,*)
(*                the error-diffusion loop, the glyph assembly) on bounded *)
(*                brightness fields                                        *)
(*   SpecQuantize quantizeToLevels on its own, on bounded sorted levels    *)
(*   SpecCalib    getCalibratedCharset and its cache, in every rendering   *)
(*                environment (no document, no 2D context, measured)       *)
(*   SpecConvert  overlapping calls of imageUrlToAscii by a caller of the  *)
(*                conversion API, with the decoded-image cache and the     *)
(*                shared scratch canvas                                    *)
(*   SpecApp      the AsciiArtApp component: imports, setting changes, the *)
(*                debounce timer, clearImage and convertToAscii            *)
(*   SpecRows     the row count of a conversion on bounded image sizes     *)
(*   SpecPixels   sampling, dithering and assembly of one conversion: the  *)
(*                cells, the colorized spans and the canvas styles         *)
(*   SpecBuffers  conversions of differing grid sizes that reuse the pooled*)
(*                brightness and quantized arrays                          *)
(*                                                                         *)
(* Brightness and level values are floats in [0,1] in the source.  They are*)
(* modelled in fixed point: the integer v stands for v / Scale, and a      *)
(* product that is stored back into the Float32Array is rounded to the     *)
(* nearest representable value.                                            *)
(***************************************************************************)
EXTENDS Integers, Sequences, FiniteSets, TLC

\* ------------------------------------------------------------------ bounds
\* Largest grid of a modelled conversion.
MaxCols == 3
MaxRows == 2
\* Longest level sequence handed to quantizeToLevels on its own.
MaxLevels == 3

\* Most imports (file, URL, demo) started in one run of the component.
MaxImports == 2
\* Most calls of imageUrlToAscii in one run.
MaxConversions == 3
\* Most conversions that reuse the pooled buffers in one run.
MaxRuns == 2
\* Largest image side and grid width of a row count computed on its own.
MaxDim == 6
\* Resolution of a measured glyph brightness: the number of model units in 1e-6.
FloorUnits == 2

\* ------------------------------------------------------- program constants
\* 1 / 1e-6: the range floor of calibrateCharset is Math.max(1e-6, max - min).
Million == 1000000
\* The range floor 1e-6, and the brightness 1.0 of a blank (all white) glyph
\* canvas, in units of a measured brightness.
RangeFloor == FloorUnits
White == Million * FloorUnits
\* The denominator of the Floyd-Steinberg weights 7/16, 5/16, 3/16, 1/16.
WeightDenom == 16
\* const CHAR_ASPECT = 2.0: a glyph cell is twice as tall as it is wide.
CharAspect == 2
\* Fixed-point resolution of a brightness value: One stands for 1.0.
Scale == WeightDenom * 4
One == Scale
Half == Scale \div 2
Quarter == Scale \div 4
Eighth == Scale \div 8

VARIABLES
    \* SpecDither: one run of the quantize/assemble stage of imageUrlToAscii
    dCols,        \* targetCols
    dRows,        \* rows
    dCharset,     \* charset: [ramp, levels]
    dInput,       \* the brightness field as filled by the luminance loop
    brightness,   \* bufferCache.brightness.subarray(0, totalPixels)
    quantized,    \* bufferCache.quantized.subarray(0, totalPixels)
    dPos,         \* idx of the next cell of the dither loop
    dPhase,       \* "quantize" | "assemble" | "done"
    dLines,       \* lines: the glyph rows of the result
    \* SpecQuantize: one call of quantizeToLevels
    qLevels,      \* levels
    qValue,       \* value
    qOut,         \* the returned {index, value}, or NoResult before the call returns
    \* SpecCalib: the calibration cache and its rendering environment
    envDocument,  \* typeof document !== "undefined"
    envCtx,       \* canvas.getContext("2d") returns a context
    envMeasure,   \* what the rendering of each glyph measures (measureCharBrightness)
    charsetCalibrationCache,   \* Map: chars -> {ramp, levels, raw}
    glyphScratch, \* {canvas, ctx}: whether each is set
    calLast,      \* the last call of getCalibratedCharset: its input and outcome
    calFirst,     \* history: chars -> what the first returned call for it returned
    \* module-level state of the conversion core
    imageCache,   \* Map: url -> the promise (index into decodes) of its decode
    decodes,      \* the promises made by loadImageCached: [url, state]
    scratchCanvas,\* {canvas, ctx}: whether created, its size, the images drawn on it
    calls,        \* the calls of imageUrlToAscii made so far
    \* AsciiArtApp: component state, refs, timers and imports in flight
    imageUrl,
    objectUrl,
    imgMeta,
    cols,
    asciiOut,     \* asciiText / asciiHtml / asciiCells: the result on display
    errorMsg,     \* error: the message on display, "" when none
    revoked,      \* the object URLs revoked so far (URL.revokeObjectURL)
    conversionId, \* conversionIdRef.current
    activeConversion,   \* activeConversionRef.current
    timer,        \* the pending 60 ms re-render timer and what its closure holds
    imports,      \* handleFiles / importFromUrl / loadDemo runs
    shown,        \* history: the import whose image is the displayed source
    newestShown,  \* history: the newest import ever displayed as the source
    newestAscii,  \* history: the newest import whose conversion was ever displayed
    applied,      \* history: the last result written to the display
    \* SpecRows: one computation of the row count of a conversion
    rW,           \* imgW
    rH,           \* imgH
    rCols,        \* targetCols
    rRows,        \* rows, or NoRows before it is computed
    \* SpecPixels: the pixels a conversion samples and the cells it returns
    pData,        \* data: the [r, g, b] of each pixel read back, row-major
    pGamma,       \* gamma
    pInvert,      \* invert
    pColorize,    \* colorize
    pCells,       \* cells: rows of {char, r, g, b}
    pHtml,        \* the spans of the colorized rows: [glyph, background, color]
    pCanvas,      \* renderAsciiToCanvas: the fill styles used for each cell
    \* SpecBuffers: the pooled arrays behind brightness and quantized
    bufferCache,  \* {brightness, quantized}: the pooled arrays, <<>> for null
    runs          \* history: the conversions that have acquired the pool

ditherVars == <<dCols, dRows, dCharset, dInput, brightness, quantized, dPos, dPhase, dLines>>
quantVars == <<qLevels, qValue, qOut>>
calibVars == <<envDocument, envCtx, envMeasure, charsetCalibrationCache, glyphScratch,
               calLast, calFirst>>
coreVars == <<imageCache, decodes, scratchCanvas, calls>>
appVars == <<imageUrl, objectUrl, imgMeta, cols, asciiOut, errorMsg,
             revoked, conversionId,
             activeConversion, timer, imports, shown, newestShown, newestAscii, applied>>
rowVars == <<rW, rH, rCols, rRows>>
pixVars == <<pData, pGamma, pInvert, pColorize, pCells, pHtml, pCanvas>>
poolVars == <<bufferCache, runs>>
vars == <<ditherVars, quantVars, calibVars, coreVars, appVars, rowVars, pixVars, poolVars>>

NoResult == [index |-> -1, value |-> -1]

\* ------------------------------------------- the parts a specification leaves idle
DitherIdle ==
    /\ dCols = 1
    /\ dRows = 1
    /\ dCharset = [ramp |-> <<>>, levels |-> <<>>]
    /\ dInput = <<>>
    /\ brightness = <<>>
    /\ quantized = <<>>
    /\ dPos = 0
    /\ dPhase = "idle"
    /\ dLines = <<>>

QuantIdle ==
    /\ qLevels = <<>>
    /\ qValue = 0
    /\ qOut = NoResult

NoCall == [chars |-> <<>>, outcome |-> "none", result |-> [ramp |-> <<>>, levels |-> <<>>, raw |-> <<>>],
           measured |-> 0, repeat |-> FALSE, prev |-> <<>>]

CalibIdle ==
    /\ envDocument = FALSE
    /\ envCtx = FALSE
    /\ envMeasure = <<>>
    /\ charsetCalibrationCache = <<>>
    /\ glyphScratch = [canvas |-> FALSE, ctx |-> FALSE]
    /\ calLast = NoCall
    /\ calFirst = <<>>

\* Image sources: "" (none), the data URL of the demo gradient, and the object
\* URL made for the n-th import.
NoUrl == [kind |-> "none", n |-> 0]
DemoUrl == [kind |-> "data", n |-> 0]
BlobUrl(n) == [kind |-> "blob", n |-> n]

NoMeta == [w |-> 0, h |-> 0]
EmptyResult == [empty |-> TRUE, url |-> NoUrl, cols |-> 0, rows |-> 0, ramp |-> <<>>,
                data |-> [w |-> 0, h |-> 0, drawn |-> <<>>], job |-> 0, imp |-> 0]
NoTimer == [set |-> FALSE, url |-> NoUrl, meta |-> NoMeta, cols |-> 0, imp |-> 0]
NoApplied == [job |-> 0, issued |-> 0, prev |-> 0]

NoRows == -1

RowsIdle ==
    /\ rW = 1
    /\ rH = 1
    /\ rCols = 1
    /\ rRows = NoRows

PixIdle ==
    /\ pData = <<>>
    /\ pGamma = 1
    /\ pInvert = FALSE
    /\ pColorize = FALSE
    /\ pCells = <<>>
    /\ pHtml = <<>>
    /\ pCanvas = <<>>

PoolIdle ==
    /\ bufferCache = [brightness |-> <<>>, quantized |-> <<>>]
    /\ runs = 0

CoreIdle ==
    /\ imageCache = <<>>
    /\ decodes = <<>>
    /\ scratchCanvas = [created |-> FALSE, ctx |-> FALSE, w |-> 0, h |-> 0, drawn |-> <<>>]
    /\ calls = <<>>

AppIdle ==
    /\ imageUrl = NoUrl
    /\ objectUrl = NoUrl
    /\ imgMeta = NoMeta
    /\ cols = 0
    /\ asciiOut = EmptyResult
    /\ errorMsg = ""
    /\ revoked = {}
    /\ conversionId = 0
    /\ activeConversion = 0
    /\ timer = NoTimer
    /\ imports = <<>>
    /\ shown = 0
    /\ newestShown = 0
    /\ newestAscii = 0
    /\ applied = NoApplied

\* ---------------------------------------------------------------- helpers
Abs(v) == IF v < 0 THEN -v ELSE v

\* a / d rounded to the nearest integer (d > 0): the rounding of a value stored
\* into a Float32Array, at the model's resolution.
RoundDiv(a, d) == (2 * a + d) \div (2 * d)

RECURSIVE SumSeq(_)
SumSeq(s) == IF s = <<>> THEN 0 ELSE Head(s) + SumSeq(Tail(s))

\* Map.prototype.set and Map.prototype.delete on a map held as a function
MapPut(map, key, value) ==
    [k \in DOMAIN map \cup {key} |-> IF k = key THEN value ELSE map[k]]

MapRemove(map, key) == [k \in DOMAIN map \ {key} |-> map[k]]

\* ------------------------------------------------------- quantizeToLevels
\* JS indices are 0-based: levels[i] of the source is levels[i + 1] here.
At(levels, i) == levels[i + 1]

\* while (hi - lo > 1) { mid = (lo + hi) >> 1; ... }
RECURSIVE NarrowLoHi(_, _, _, _)
NarrowLoHi(value, levels, lo, hi) ==
    IF hi - lo > 1
    THEN LET mid == (lo + hi) \div 2
         IN  IF value >= At(levels, mid)
             THEN NarrowLoHi(value, levels, mid, hi)
             ELSE NarrowLoHi(value, levels, lo, mid)
    ELSE <<lo, hi>>

\* A plausible slip: ties go to the higher level.
PrefersLow_Strict(value, lowVal, highVal) == value - lowVal < highVal - value

\* if (value - lowVal <= highVal - value) return lo
PrefersLow(value, lowVal, highVal) == value - lowVal <= highVal - value

QuantizeToLevels(value, levels) ==
    LET n == Len(levels)
        lastIndex == n - 1
    IN  IF n = 0 THEN [index |-> 0, value |-> 0]
        ELSE IF n = 1 THEN [index |-> 0, value |-> At(levels, 0)]
        ELSE IF value <= At(levels, 0) THEN [index |-> 0, value |-> At(levels, 0)]
        ELSE IF value >= At(levels, lastIndex)
             THEN [index |-> lastIndex, value |-> At(levels, lastIndex)]
        ELSE LET lh == NarrowLoHi(value, levels, 0, lastIndex)
             IN  IF PrefersLow(value, At(levels, lh[1]), At(levels, lh[2]))
                 THEN [index |-> lh[1], value |-> At(levels, lh[1])]
                 ELSE [index |-> lh[2], value |-> At(levels, lh[2])]

\* ------------------------------------------------ the error-diffusion loop
\* A plausible slip: the sum is stored as it is.
Clamp01_None(v) == v

\* const clamp01 = (v) => (v < 0 ? 0 : v > 1 ? 1 : v)
Clamp01(v) == IF v < 0 THEN 0 ELSE IF v > One THEN One ELSE v

\* A plausible slip: the weights are taken over 32.
Weighted_Halved(error, w) == RoundDiv(error * w, 2 * WeightDenom)

\* error * (w / 16), as stored
Weighted(error, w) == RoundDiv(error * w, WeightDenom)

\* brightness[i] = clamp01(brightness[i] + error * (w / 16))
Diffuse(b, i, error, w) == [b EXCEPT ![i + 1] = Clamp01(b[i + 1] + Weighted(error, w))]

\* A plausible slip: the quantization error is taken against 0, not the chosen level.
QuantError_NoSubtract(oldPixel, newPixel) == oldPixel

\* const error = oldPixel - newPixel
QuantError(oldPixel, newPixel) == oldPixel - newPixel

\* A plausible slip: the whole error is carried east.
EastWeight_All == WeightDenom

\* brightness[east] + error * (7 / 16)
EastWeight == 7

\* A plausible slip: the chosen level is not written back.
StoreCell_Skip(b, idx, value) == b

\* brightness[idx] = newPixel
StoreCell(b, idx, value) == [b EXCEPT ![idx + 1] = value]

\* if (x + 1 < targetCols)
HasEast(x, nCols) == x + 1 < nCols

\* if (y + 1 < rows)
HasSouth(y, nRows) == y + 1 < nRows

\* A plausible slip: the south-west write is made from column 0 too.
HasWest_Always(x) == TRUE

\* if (x > 0)
HasWest(x) == x > 0

\* One iteration of the inner loop, for cell idx = y * targetCols + x: the pair
\* <<brightness, quantized>> after it.
DitherCell(b, q, idx, nCols, nRows, levels) ==
    LET x == idx % nCols
        y == idx \div nCols
        oldPixel == b[idx + 1]
        qz == QuantizeToLevels(oldPixel, levels)
        error == QuantError(oldPixel, qz.value)
        b0 == StoreCell(b, idx, qz.value)
        q0 == [q EXCEPT ![idx + 1] = qz.index]
        b1 == IF HasEast(x, nCols) THEN Diffuse(b0, idx + 1, error, EastWeight) ELSE b0
        south == idx + nCols
        b2 == IF HasSouth(y, nRows) THEN Diffuse(b1, south, error, 5) ELSE b1
        b3 == IF HasSouth(y, nRows) /\ HasWest(x) THEN Diffuse(b2, south - 1, error, 3) ELSE b2
        b4 == IF HasSouth(y, nRows) /\ HasEast(x, nCols) THEN Diffuse(b3, south + 1, error, 1) ELSE b3
    IN  <<b4, q0>>

\* A plausible slip: only an empty ramp skips the diffusion loop.
IsSingleLevel_OnlyEmpty(n) == n < 1

\* if (n <= 1)
IsSingleLevel(n) == n <= 1

\* The n <= 1 branch: quantized.fill(0); brightness.fill(levels[0] ?? 0)
FillSingle(b, q, levels) ==
    LET fillValue == IF Len(levels) > 0 THEN At(levels, 0) ELSE 0
    IN  <<[i \in DOMAIN b |-> fillValue], [i \in DOMAIN q |-> 0]>>

\* const i = n > 1 ? quantized[idx] : 0
GlyphIndex(n, q, idx) == IF n > 1 THEN q[idx + 1] ELSE 0

\* lines: for each row the glyphs ramp[i] of its cells
AssembleLines(ramp, q, nCols, nRows) ==
    [y \in 1..nRows |->
        [x \in 1..nCols |-> ramp[GlyphIndex(Len(ramp), q, (y - 1) * nCols + (x - 1)) + 1]]]

\* ------------------------------------------------------------- SpecDither
\* Charsets as calibration can return them (ramp and levels of equal length).
DitherCharsets ==
    { [ramp |-> <<"#">>, levels |-> <<0>>],
      [ramp |-> <<"#", " ">>, levels |-> <<0, One>>],
      [ramp |-> <<"#", "+", " ">>, levels |-> <<0, Half, One>>],
      [ramp |-> <<"#", "+", " ">>, levels |-> <<0, Quarter, One>>],
      [ramp |-> <<"#", "+", " ">>, levels |-> <<0, 0, One>>],
      [ramp |-> <<"#", "+">>, levels |-> <<0, 0>>],
      [ramp |-> <<"#", "+">>, levels |-> <<0, Half>>] }

BrightnessValues == {0, Eighth, Quarter, Half, Half + Eighth, One}

\* The brightness fields of a grid of n cells: uniform ones, alternating ones and
\* ones with a single cell that differs.
Fields(n) ==
    { [i \in 1..n |-> IF i % 2 = 1 THEN v ELSE w] : v \in BrightnessValues, w \in BrightnessValues }
    \cup { [i \in 1..n |-> IF i = p THEN v ELSE w] :
             p \in 1..n, v \in BrightnessValues, w \in {0, Half, One} }

InitDither ==
    /\ CoreIdle
    /\ RowsIdle
    /\ PixIdle
    /\ PoolIdle
    /\ AppIdle
    /\ QuantIdle
    /\ CalibIdle
    /\ dCols \in 1..MaxCols
    /\ dRows \in 1..MaxRows
    /\ dCharset \in DitherCharsets
    /\ dInput \in Fields(dCols * dRows)
    /\ brightness = dInput
    /\ quantized = [i \in 1..(dCols * dRows) |-> 0]
    /\ dPos = 0
    /\ dPhase = "quantize"
    /\ dLines = <<>>

\* if (n <= 1) { ... }
DitherSingle ==
    /\ dPhase = "quantize"
    /\ IsSingleLevel(Len(dCharset.ramp))
    /\ LET r == FillSingle(brightness, quantized, dCharset.levels)
       IN  /\ brightness' = r[1]
           /\ quantized' = r[2]
    /\ dPhase' = "assemble"
    /\ UNCHANGED <<dCols, dRows, dCharset, dInput, dPos, dLines, quantVars, calibVars, coreVars, appVars, rowVars, pixVars, poolVars>>

\* else: one iteration of the row-major loop
DitherStep ==
    /\ dPhase = "quantize"
    /\ ~IsSingleLevel(Len(dCharset.ramp))
    /\ dPos < dCols * dRows
    /\ LET r == DitherCell(brightness, quantized, dPos, dCols, dRows, dCharset.levels)
       IN  /\ brightness' = r[1]
           /\ quantized' = r[2]
    /\ dPos' = dPos + 1
    /\ dPhase' = IF dPos + 1 = dCols * dRows THEN "assemble" ELSE "quantize"
    /\ UNCHANGED <<dCols, dRows, dCharset, dInput, dLines, quantVars, calibVars, coreVars, appVars, rowVars, pixVars, poolVars>>

\* the assembly loop
DitherAssemble ==
    /\ dPhase = "assemble"
    /\ dLines' = AssembleLines(dCharset.ramp, quantized, dCols, dRows)
    /\ dPhase' = "done"
    /\ UNCHANGED <<dCols, dRows, dCharset, dInput, brightness, quantized, dPos, quantVars, calibVars, coreVars, appVars, rowVars, pixVars, poolVars>>

NextDither == DitherSingle \/ DitherStep \/ DitherAssemble

SpecDither == InitDither /\ [][NextDither]_vars

\* ----------------------------------------------------------- SpecQuantize
LevelValues == {0, Quarter, Half, One}

IsSortedSeq(s) == \A i \in 1..(Len(s) - 1) : s[i] <= s[i + 1]

\* The sorted (non-decreasing) level sequences of 2..MaxLevels entries.
SortedLevels ==
    UNION { { s \in [1..n -> LevelValues] : IsSortedSeq(s) } : n \in 2..MaxLevels }

InitQuantize ==
    /\ CoreIdle
    /\ RowsIdle
    /\ PixIdle
    /\ PoolIdle
    /\ AppIdle
    /\ DitherIdle
    /\ CalibIdle
    /\ qLevels \in SortedLevels
    /\ qValue \in 0..One
    /\ qOut = NoResult

QuantizeCall ==
    /\ qOut = NoResult
    /\ qLevels # <<>>
    /\ qOut' = QuantizeToLevels(qValue, qLevels)
    /\ UNCHANGED <<qLevels, qValue, ditherVars, calibVars, coreVars, appVars, rowVars, pixVars, poolVars>>

NextQuantize == QuantizeCall

SpecQuantize == InitQuantize /\ [][NextQuantize]_vars

\* The lower of the two adjacent levels that bracket value: the last index whose
\* level is <= value.
BracketLo(value, levels) ==
    CHOOSE i \in 0..(Len(levels) - 2) :
        /\ At(levels, i) <= value
        /\ value < At(levels, i + 1)

\* C4: quantizeToLevels on sorted levels (>= 2 entries) returns the index of a
\* nearest level and that level's value: index 0 when value <= levels[0]; else the
\* last index when value >= levels[last]; otherwise the closer of the two adjacent
\* levels that bracket value, the lower one on an exact tie (a quarter with levels
\* 0, 1/2, 1 gives index 0).
C4_QuantizeNearest ==
    qOut # NoResult =>
        LET n == Len(qLevels)
            i == qOut.index
        IN  /\ i \in 0..(n - 1)
            /\ qOut.value = At(qLevels, i)
            /\ \A j \in 0..(n - 1) : Abs(At(qLevels, i) - qValue) <= Abs(At(qLevels, j) - qValue)
            /\ qValue <= At(qLevels, 0) => i = 0
            /\ (qValue > At(qLevels, 0) /\ qValue >= At(qLevels, n - 1)) => i = n - 1
            /\ (qValue > At(qLevels, 0) /\ qValue < At(qLevels, n - 1)) =>
                  LET lo == BracketLo(qValue, qLevels)
                  IN  i = IF qValue - At(qLevels, lo) <= At(qLevels, lo + 1) - qValue
                          THEN lo ELSE lo + 1
            /\ (qLevels = <<0, Half, One>> /\ qValue = Quarter) => i = 0

\* An exact tie strictly inside the levels has been quantized.
C4_Witness ==
    /\ qOut # NoResult
    /\ qLevels = <<0, Half, One>>
    /\ qValue = Quarter
    /\ qOut.index = 0

\* ------------------------------------------------------ claims: the dither
IsUniform(f, v) == \A i \in DOMAIN f : f[i] = v

\* C5: with levels 0, 1/2, 1 a uniform field of 1/2 gets index 1 in every cell,
\* and no cell's brightness is ever changed by diffusion (each error is 0).
C5_UniformHalf ==
    (dCharset.levels = <<0, Half, One>> /\ dInput # <<>> /\ IsUniform(dInput, Half)) =>
        /\ brightness = dInput
        /\ \A i \in 1..dPos : quantized[i] = 1
        /\ dPhase = "done" => \A y \in DOMAIN dLines : \A x \in DOMAIN dLines[y] : dLines[y][x] = "+"

C5_Witness ==
    /\ dCharset.levels = <<0, Half, One>>
    /\ dInput # <<>>
    /\ IsUniform(dInput, Half)
    /\ dCols > 1
    /\ dRows > 1
    /\ dPhase = "done"
    /\ \A i \in DOMAIN quantized : quantized[i] = 1

\* The largest gap between adjacent levels.
MaxGap(levels) ==
    LET gaps == { levels[i + 1] - levels[i] : i \in 1..(Len(levels) - 1) }
    IN  CHOOSE g \in gaps : \A h \in gaps : h <= g

SpansUnit(levels) == Len(levels) >= 2 /\ levels[1] = 0 /\ levels[Len(levels)] = One

\* The summed output brightness minus the summed input brightness.
SumDeviation == SumSeq(brightness) - SumSeq(dInput)

\* C6 as stated: in a single row the rounding error of each cell is carried into
\* the cells after it, so the summed output differs from the summed input by no
\* more than the last cell's rounding error (half a gap), however long the row:
\* the average shows no drift in one direction.
C6_NoDrift ==
    (dRows = 1 /\ SpansUnit(dCharset.levels) /\ dPhase = "done") =>
        2 * Abs(SumDeviation) <= MaxGap(dCharset.levels)

\* C6 amended: in a single row every cell's chosen level differs from that cell's
\* input by at most 23/32 of the largest gap (half a gap of its own rounding and
\* 7/16 of the previous cell's), up to the rounding of one stored value; only
\* 7/16 of an error is carried on, so the deviations may all have the same sign.
C6_PerCellBound ==
    (dRows = 1 /\ SpansUnit(dCharset.levels) /\ dPhase = "done") =>
        \A i \in DOMAIN dInput :
            32 * Abs(brightness[i] - dInput[i]) <= 23 * MaxGap(dCharset.levels) + 16

\* A single row in which every cell was rounded down and the summed deviation
\* exceeds half a gap.
C6_Witness ==
    /\ dRows = 1
    /\ dCols >= 3
    /\ SpansUnit(dCharset.levels)
    /\ dPhase = "done"
    /\ \A i \in DOMAIN dInput : brightness[i] < dInput[i]
    /\ 2 * Abs(SumDeviation) > MaxGap(dCharset.levels)

\* C7: with a one-glyph ramp the diffusion loop never runs (no cell is visited,
\* no brightness is changed by an error), every quantized index is 0, every
\* brightness is set to levels[0] and every output glyph is ramp[0].
C7_SingleGlyph ==
    (Len(dCharset.ramp) = 1 /\ dPhase # "idle") =>
        /\ dPos = 0
        /\ dPhase = "quantize" => brightness = dInput
        /\ dPhase \in {"assemble", "done"} =>
              /\ \A i \in DOMAIN quantized : quantized[i] = 0
              /\ \A i \in DOMAIN brightness : brightness[i] = dCharset.levels[1]
        /\ dPhase = "done" =>
              \A y \in 1..dRows : \A x \in 1..dCols : dLines[y][x] = dCharset.ramp[1]

C7_Witness ==
    /\ Len(dCharset.ramp) = 1
    /\ dPhase = "done"
    /\ dCols > 1
    /\ dRows > 1
    /\ \E i \in DOMAIN dInput : dInput[i] # dCharset.levels[1]
    /\ \A y \in 1..dRows : \A x \in 1..dCols : dLines[y][x] = dCharset.ramp[1]

\* C23: one iteration of the diffusion loop, for the cell idx = y * cols + x,
\* stores the chosen level and index in that cell, adds error * 7/16 to idx + 1
\* when x + 1 < cols, error * 5/16 to idx + cols when y + 1 < rows, error * 3/16
\* to idx + cols - 1 when also x > 0 and error * 1/16 to idx + cols + 1 when also
\* x + 1 < cols (error = the cell's brightness minus its chosen level), and
\* changes no other cell: no brightness and no index of a cell visited earlier.
C23_ForwardDiffusion ==
    [][(dPhase = "quantize" /\ dPos' = dPos + 1) =>
        LET x == dPos % dCols
            y == dPos \div dCols
            error == brightness[dPos + 1] - brightness'[dPos + 1]
            south == y + 1 < dRows
            east == x + 1 < dCols
            targets == (IF east THEN {<<dPos + 1, 7>>} ELSE {})
                       \cup (IF south THEN {<<dPos + dCols, 5>>} ELSE {})
                       \cup (IF south /\ x > 0 THEN {<<dPos + dCols - 1, 3>>} ELSE {})
                       \cup (IF south /\ east THEN {<<dPos + dCols + 1, 1>>} ELSE {})
            sum(t) == brightness[t[1] + 1] + ((2 * error * t[2] + WeightDenom) \div (2 * WeightDenom))
        IN  /\ brightness'[dPos + 1] = dCharset.levels[quantized'[dPos + 1] + 1]
            /\ \A t \in targets :
                   brightness'[t[1] + 1] = IF sum(t) < 0 THEN 0 ELSE IF sum(t) > One THEN One ELSE sum(t)
            /\ \A i \in 0..(dCols * dRows - 1) :
                   (i # dPos /\ \A t \in targets : t[1] # i) => brightness'[i + 1] = brightness[i + 1]
            /\ \A i \in 0..(dCols * dRows - 1) :
                   i # dPos => quantized'[i + 1] = quantized[i + 1]
            /\ \A i \in 0..(dPos - 1) :
                   brightness'[i + 1] = brightness[i + 1] /\ quantized'[i + 1] = quantized[i + 1]]_vars

\* The whole of a 3 x 2 grid was dithered with three levels, and the first cell
\* left an error to diffuse.
C23_Witness ==
    /\ dPhase = "assemble"
    /\ dCols = MaxCols
    /\ dRows = MaxRows
    /\ Len(dCharset.levels) = 3
    /\ dPos = dCols * dRows
    /\ dInput[1] # brightness[1]
    /\ \E i \in DOMAIN quantized : quantized[i] = 1

\* C24: during dithering every brightness value is within [0, 1].
C24_BrightnessInRange ==
    \A i \in DOMAIN brightness : brightness[i] >= 0 /\ brightness[i] <= One

\* The second cell of a row holds 0 although the error carried east from the
\* first cell would have taken it below 0.
C24_Witness ==
    /\ dPhase = "quantize"
    /\ dPos = 1
    /\ dCols > 1
    /\ brightness[2] = 0
    /\ dInput[2] > 0
    /\ 16 * dInput[2] + 7 * (dInput[1] - brightness[1]) < 0

C27_IndexAndLevel ==
    (dPhase \in {"assemble", "done"} /\ Len(dCharset.levels) >= 2) =>
        /\ Len(dCharset.levels) = Len(dCharset.ramp)
        /\ \A i \in DOMAIN quantized :
               /\ quantized[i] \in 0..(Len(dCharset.ramp) - 1)
               /\ brightness[i] = dCharset.levels[quantized[i] + 1]
        /\ dPhase = "done" =>
               \A y \in 1..dRows, x \in 1..dCols :
                   \E k \in 1..Len(dCharset.ramp) :
                       dLines[y][x] = dCharset.ramp[k] /\ quantized[(y - 1) * dCols + x] = k - 1

\* A 3 x 2 grid was dithered and assembled with three levels, and all three
\* indices occur.
C27_Witness ==
    /\ dPhase = "done"
    /\ dCols = MaxCols
    /\ dRows = MaxRows
    /\ \A k \in 0..2 : \E i \in DOMAIN quantized : quantized[i] = k

\* -------------------------------------------------------------- SpecCalib
\* A charset string is the sequence of its characters.
Glyphs == {"a", "b"}

\* What a rendered glyph can measure: equal, closer than the range floor, exactly
\* the floor apart, or far apart (a glyph that renders nothing measures White).
MeasureValues == {0, 1, RangeFloor, White}

CalibInputs ==
    { <<>>, <<"a">>, <<"a", "b">>, <<"a", "a">>, <<"b", "a", "b">>, <<" ", "a", "b">> }

SeqRange(s) == { s[i] : i \in DOMAIN s }

\* Array.from(new Set([...chars])): the first occurrence of each character, in order.
RECURSIVE UniqueChars(_)
UniqueChars(chars) ==
    IF chars = <<>> THEN <<>>
    ELSE LET front == SubSeq(chars, 1, Len(chars) - 1)
             last == chars[Len(chars)]
         IN  IF last \in SeqRange(front) THEN UniqueChars(front)
             ELSE Append(UniqueChars(front), last)

\* measureCharBrightness: a space is never drawn, so its canvas stays all white;
\* any other glyph measures what the rendering environment draws.
MeasureCharBrightness(ch) == IF ch = " " THEN White ELSE envMeasure[ch]

\* Insert entry e into the sorted sequence s after every entry that is not brighter
\* (Array.prototype.sort is stable).
RECURSIVE InsertSorted(_, _)
InsertSorted(s, e) ==
    IF s = <<>> THEN <<e>>
    ELSE IF s[Len(s)].brightness <= e.brightness THEN Append(s, e)
    ELSE Append(InsertSorted(SubSeq(s, 1, Len(s) - 1), e), s[Len(s)])

RECURSIVE SortStable(_)
SortStable(entries) ==
    IF entries = <<>> THEN <<>>
    ELSE InsertSorted(SortStable(SubSeq(entries, 1, Len(entries) - 1)), entries[Len(entries)])

\* A plausible slip: the entries are left in input order.
SortEntries_Unsorted(entries) == entries

\* entries.sort((a, b) => a.brightness - b.brightness)
SortEntries(entries) == SortStable(entries)

\* A plausible slip: no floor under the range.
RangeOf_NoFloor(min, max) == max - min

\* const range = Math.max(1e-6, max - min)
RangeOf(min, max) == IF max - min > RangeFloor THEN max - min ELSE RangeFloor

\* range === 0 ? 0 : (entries[i].brightness - min) / range, stored as a level
Normalized(b, min, range) == IF range = 0 THEN 0 ELSE RoundDiv((b - min) * Scale, range)

\* A plausible slip: levels[i] = i / n for every n, with no case for one glyph.
CreateUniformCharset_NoSingle(chars) ==
    [ramp |-> chars,
     levels |-> [i \in 1..Len(chars) |-> RoundDiv(i * Scale, Len(chars))],
     raw |-> chars]

\* createUniformCharset
CreateUniformCharset(chars) ==
    LET n == Len(chars)
    IN  IF n = 0 THEN [ramp |-> <<>>, levels |-> <<>>, raw |-> chars]
        ELSE IF n = 1 THEN [ramp |-> chars, levels |-> <<0>>, raw |-> chars]
        ELSE [ramp |-> chars,
              levels |-> [i \in 1..n |-> RoundDiv((i - 1) * Scale, n - 1)],
              raw |-> chars]

\* calibrateCharset, once getGlyphContext has returned a context
CalibrateCharset(chars) ==
    LET uniqueChars == UniqueChars(chars)
        measuredEntries == [i \in 1..Len(uniqueChars) |->
                               [ch |-> uniqueChars[i],
                                brightness |-> MeasureCharBrightness(uniqueChars[i])]]
        entries == SortEntries(measuredEntries)
        min == entries[1].brightness
        max == entries[Len(entries)].brightness
        range == RangeOf(min, max)
    IN  IF Len(uniqueChars) = 0 THEN CreateUniformCharset(chars)
        ELSE [ramp |-> [i \in 1..Len(entries) |-> entries[i].ch],
              levels |-> [i \in 1..Len(entries) |-> Normalized(entries[i].brightness, min, range)],
              raw |-> chars]

\* getGlyphContext: the canvas is created once; a null context makes it throw
GlyphContextThrows == IF glyphScratch.canvas THEN ~glyphScratch.ctx ELSE ~envCtx

GlyphScratchAfter == IF glyphScratch.canvas THEN glyphScratch ELSE [canvas |-> TRUE, ctx |-> envCtx]

\* A plausible slip: the cache is never consulted.
CacheHas_Never(cache, chars) == FALSE

\* charsetCalibrationCache.has(safeChars)
CacheHas(cache, chars) == chars \in DOMAIN cache

CachePut(cache, chars, result) ==
    [k \in DOMAIN cache \cup {chars} |-> IF k = chars THEN result ELSE cache[k]]

InitCalib ==
    /\ CoreIdle
    /\ RowsIdle
    /\ PixIdle
    /\ PoolIdle
    /\ AppIdle
    /\ DitherIdle
    /\ QuantIdle
    /\ envDocument \in BOOLEAN
    /\ envCtx \in BOOLEAN
    /\ (~envDocument) => ~envCtx
    /\ envMeasure \in [Glyphs -> MeasureValues]
    /\ charsetCalibrationCache = <<>>
    /\ glyphScratch = [canvas |-> FALSE, ctx |-> FALSE]
    /\ calLast = NoCall
    /\ calFirst = <<>>

Returned(chars, result, measured) ==
    /\ calLast' = [chars |-> chars, outcome |-> "returned", result |-> result,
                   measured |-> measured, repeat |-> chars \in DOMAIN calFirst,
                   prev |-> calLast.chars]
    /\ calFirst' = IF chars \in DOMAIN calFirst THEN calFirst ELSE CachePut(calFirst, chars, result)

\* getCalibratedCharset(chars)
GetCalibratedCharset(chars) ==
    IF chars = <<>>
    THEN /\ Returned(chars, [ramp |-> <<>>, levels |-> <<>>, raw |-> <<>>], 0)
         /\ UNCHANGED <<charsetCalibrationCache, glyphScratch>>
    ELSE IF CacheHas(charsetCalibrationCache, chars)
    THEN /\ Returned(chars, charsetCalibrationCache[chars], 0)
         /\ UNCHANGED <<charsetCalibrationCache, glyphScratch>>
    ELSE IF ~envDocument
    THEN /\ Returned(chars, CreateUniformCharset(chars), 0)
         /\ charsetCalibrationCache' =
                CachePut(charsetCalibrationCache, chars, CreateUniformCharset(chars))
         /\ UNCHANGED glyphScratch
    ELSE IF GlyphContextThrows
    THEN /\ calLast' = [NoCall EXCEPT !.chars = chars, !.outcome = "threw",
                                      !.repeat = chars \in DOMAIN calFirst,
                                      !.prev = calLast.chars]
         /\ glyphScratch' = GlyphScratchAfter
         /\ UNCHANGED <<charsetCalibrationCache, calFirst>>
    ELSE /\ Returned(chars, CalibrateCharset(chars), Len(UniqueChars(chars)))
         /\ charsetCalibrationCache' =
                CachePut(charsetCalibrationCache, chars, CalibrateCharset(chars))
         /\ glyphScratch' = GlyphScratchAfter

CalibCall ==
    \E chars \in CalibInputs :
        /\ GetCalibratedCharset(chars)
        /\ UNCHANGED <<envDocument, envCtx, envMeasure, ditherVars, quantVars, coreVars, appVars, rowVars, pixVars, poolVars>>

NextCalib == CalibCall

SpecCalib == InitCalib /\ [][NextCalib]_vars

\* ------------------------------------------------- claims: the calibration
IsPermutationOf(s, t) ==
    /\ Len(s) = Len(t)
    /\ SeqRange(s) = SeqRange(t)
    /\ \A i, j \in DOMAIN s : i # j => s[i] # s[j]

\* The span of what the glyphs of chars measure.
MeasuredSpan(chars) ==
    LET vals == { MeasureCharBrightness(ch) : ch \in SeqRange(chars) }
        hi == CHOOSE v \in vals : \A w \in vals : w <= v
        lo == CHOOSE v \in vals : \A w \in vals : v <= w
    IN  hi - lo

\* C8 as stated: in either calibration mode the returned levels are sorted and the
\* ramp is a permutation of the deduplicated input characters.
C8_SortedPermutation ==
    calLast.outcome = "returned" =>
        /\ IsSortedSeq(calLast.result.levels)
        /\ IsPermutationOf(calLast.result.ramp, UniqueChars(calLast.chars))

\* C8 amended: the returned levels are sorted in either mode; the ramp is a
\* permutation of the deduplicated input characters when the glyphs were measured,
\* and the input string unchanged (duplicates kept) in the uniform fallback.
C8_SortedAndRamp ==
    calLast.outcome = "returned" =>
        /\ IsSortedSeq(calLast.result.levels)
        /\ envDocument => IsPermutationOf(calLast.result.ramp, UniqueChars(calLast.chars))
        /\ (~envDocument) => calLast.result.ramp = calLast.chars

\* A measured calibration of a string with a repeated character whose glyphs had
\* to be reordered.
C8_Witness ==
    /\ calLast.outcome = "returned"
    /\ envDocument
    /\ calLast.chars = <<"b", "a", "b">>
    /\ calLast.result.ramp = <<"a", "b">>
    /\ calLast.result.levels = <<0, One>>

C10_CachedRepeat ==
    (calLast.outcome = "returned" /\ calLast.repeat /\ calLast.chars # <<>>) =>
        /\ calLast.result.ramp = calFirst[calLast.chars].ramp
        /\ calLast.result.levels = calFirst[calLast.chars].levels
        /\ calLast.measured = 0

\* A measured string is asked for again after another string was calibrated.
C10_Witness ==
    /\ calLast.outcome = "returned"
    /\ calLast.repeat
    /\ envDocument
    /\ calLast.chars = <<"b", "a", "b">>
    /\ calLast.prev = <<"a", "b">>
    /\ calLast.measured = 0

C12_FallbackWithoutContext ==
    (calLast.outcome # "none" /\ calLast.chars # <<>> /\ (~envDocument \/ ~envCtx)) =>
        /\ calLast.outcome = "returned"
        /\ calLast.result.ramp = calLast.chars
        /\ calLast.result.levels = CreateUniformCharset(calLast.chars).levels

\* ------------------------------------------------------ the conversion core
\* const rows = Math.max(1, Math.round((imgH / imgW) * (targetCols / CHAR_ASPECT)));
\* Math.round(v) is floor(v + 1/2).
\* A plausible slip: the quotient is truncated instead of rounded.
RowsFor_Truncated(imgW, imgH, targetCols) ==
    LET r == (2 * imgH * targetCols) \div (2 * imgW * CharAspect)
    IN  IF r < 1 THEN 1 ELSE r

RowsFor(imgW, imgH, targetCols) ==
    LET r == (2 * imgH * targetCols + imgW * CharAspect) \div (2 * imgW * CharAspect)
    IN  IF r < 1 THEN 1 ELSE r

\* The promise of a decode: a call with no URL gets Promise.reject (promise 0).
DecodeState(pid) == IF pid = 0 THEN "failed" ELSE decodes[pid].state

\* loadImageCached(url): the promise it returns, and the cache and the promises
\* after it.  An image whose src is an object URL that is already revoked
\* cannot load.
LoadImageCached(cache, decs, url, rev) ==
    IF url = NoUrl THEN [pid |-> 0, cache |-> cache, decodes |-> decs]
    ELSE IF url \in DOMAIN cache THEN [pid |-> cache[url], cache |-> cache, decodes |-> decs]
    ELSE [pid |-> Len(decs) + 1,
          cache |-> MapPut(cache, url, Len(decs) + 1),
          decodes |-> Append(decs, [url |-> url, state |-> "pending", dead |-> url \in rev])]

\* releaseCachedImage(url)
ReleaseCachedImage(cache, url) == IF url = NoUrl THEN cache ELSE MapRemove(cache, url)

\* getScratchContext(width, height): the canvas is created once; a null context
\* makes it throw; a canvas whose size changes is reset.
GetScratchContext(sc, width, height) ==
    LET made == IF sc.created THEN sc ELSE [sc EXCEPT !.created = TRUE, !.ctx = envCtx]
    IN  IF ~made.ctx THEN [threw |-> TRUE, resized |-> FALSE, canvas |-> made]
        ELSE IF made.w # width \/ made.h # height
        THEN [threw |-> FALSE, resized |-> TRUE,
              canvas |-> [made EXCEPT !.w = width, !.h = height, !.drawn = <<>>]]
        ELSE [threw |-> FALSE, resized |-> FALSE, canvas |-> made]

\* if (!hasRamp) return { text: "", html: "", cells: [] }
HasRamp(charset) == Len(charset.ramp) > 0

\* imageUrlToAscii up to its await: the call, and the scratch canvas, cache and
\* promises after it.  steps records the sampling steps the call has performed.
StartCall(p, sc, cache, decs, rev) ==
    LET rows == RowsFor(p.imgW, p.imgH, p.targetCols)
        gs == GetScratchContext(sc, p.targetCols, rows)
        lic == LoadImageCached(cache, decs, p.url, rev)
        call == [url |-> p.url, targetCols |-> p.targetCols, rows |-> rows,
                 charset |-> p.charset, job |-> p.job, imp |-> p.imp,
                 pc |-> "await", pid |-> 0, steps |-> {}, result |-> EmptyResult,
                 outcome |-> "", sawApplied |-> 0]
    IN  IF gs.threw
        THEN [call |-> [call EXCEPT !.pc = "threw"],
              scratch |-> gs.canvas, cache |-> cache, decodes |-> decs]
        ELSE [call |-> [call EXCEPT !.pid = lic.pid,
                                    !.steps = (IF gs.resized THEN {"resize"} ELSE {})
                                              \cup {"clear", "await"}],
              scratch |-> [gs.canvas EXCEPT !.drawn = <<>>],
              cache |-> lic.cache, decodes |-> lic.decodes]

\* ctx.drawImage(img, 0, 0, canvas.width, canvas.height) composites the image
\* over what the canvas holds: drawn lists the images drawn since the canvas
\* was last cleared or resized, the oldest first.
DrawImage(sc, url) == [sc EXCEPT !.drawn = Append(@, url)]

\* imageUrlToAscii after its await: the image is drawn onto the scratch canvas as
\* it is now, the pixels are read back, and the result is computed from them.
ResumedResult(call, sc) ==
    IF ~HasRamp(call.charset) THEN EmptyResult
    ELSE [empty |-> FALSE, url |-> call.url, cols |-> call.targetCols, rows |-> call.rows,
          ramp |-> call.charset.ramp,
          data |-> [w |-> sc.w, h |-> sc.h, drawn |-> DrawImage(sc, call.url).drawn],
          job |-> call.job, imp |-> call.imp]

\* ctx.getImageData(0, 0, canvas.width, canvas.height) throws an IndexSizeError
\* when the width or the height it is asked for is 0.
ReadThrows(sc) == sc.w = 0 \/ sc.h = 0

\* const { data } = ctx.getImageData(...): four bytes for each pixel of the canvas
DataLength(data) == data.w * data.h * 4

\* data[dataIdx + 0], data[dataIdx + 1], data[dataIdx + 2] of the cell idx are bytes
\* of data; an index past its end reads undefined.
CellSampled(result, idx) == idx * 4 + 2 < DataLength(result.data)

\* img.onload
DecodeLoad(pid) ==
    /\ decodes[pid].state = "pending"
    /\ ~decodes[pid].dead
    /\ decodes' = [decodes EXCEPT ![pid].state = "loaded"]
    /\ UNCHANGED <<imageCache, scratchCanvas, calls>>

\* img.onerror: imageCache.delete(url); reject(err)
DecodeError(pid) ==
    /\ decodes[pid].state = "pending"
    /\ decodes' = [decodes EXCEPT ![pid].state = "failed"]
    /\ imageCache' = MapRemove(imageCache, decodes[pid].url)
    /\ UNCHANGED <<scratchCanvas, calls>>

\* the continuation of imageUrlToAscii once the decode has resolved
CallResume(c) ==
    /\ calls[c].pc = "await"
    /\ DecodeState(calls[c].pid) = "loaded"
    /\ IF ReadThrows(scratchCanvas)
       THEN /\ calls' = [calls EXCEPT ![c].pc = "threw", ![c].steps = @ \cup {"draw"}]
            /\ UNCHANGED scratchCanvas
       ELSE /\ scratchCanvas' = DrawImage(scratchCanvas, calls[c].url)
            /\ calls' = [calls EXCEPT ![c].pc = "returned",
                                      ![c].steps = @ \cup {"draw", "read"},
                                      ![c].result = ResumedResult(calls[c], scratchCanvas)]
    /\ UNCHANGED <<imageCache, decodes>>

\* the await of imageUrlToAscii throws once the decode has been rejected
CallReject(c) ==
    /\ calls[c].pc = "await"
    /\ DecodeState(calls[c].pid) = "failed"
    /\ calls' = [calls EXCEPT ![c].pc = "threw"]
    /\ UNCHANGED <<imageCache, decodes, scratchCanvas>>

\* ------------------------------------------------------------- SpecConvert
\* Two image sources of different aspect, and the grid widths asked for.
ConvertUrls == {DemoUrl, BlobUrl(1)}
ColsChoices == {MaxCols - 1, MaxCols}

\* The natural size of a decoded image: the demo gradient is 240 x 160; files
\* alternate between a square and a tall image.
MetaOf(url) ==
    IF url.kind = "data" THEN [w |-> 240, h |-> 160]
    ELSE IF url.kind = "blob" THEN (IF url.n % 2 = 1 THEN [w |-> 2, h |-> 2] ELSE [w |-> 1, h |-> 2])
    ELSE NoMeta

EmptyCharset == [ramp |-> <<>>, levels |-> <<>>]

\* A calibrated charset: charsetInfo of the component's default charset.
AppCharset == [ramp |-> <<"#", "+", " ">>, levels |-> <<0, Half, One>>]

ConvertCharsets == {EmptyCharset, AppCharset}

\* The widths a caller of imageUrlToAscii passes: the grid widths, and 0.
CallCols == ColsChoices \cup {0}

InitConvert ==
    /\ DitherIdle
    /\ QuantIdle
    /\ AppIdle
    /\ envDocument = TRUE
    /\ envCtx \in BOOLEAN
    /\ envMeasure = <<>>
    /\ charsetCalibrationCache = <<>>
    /\ glyphScratch = [canvas |-> FALSE, ctx |-> FALSE]
    /\ calLast = NoCall
    /\ calFirst = <<>>
    /\ CoreIdle
    /\ RowsIdle
    /\ PixIdle
    /\ PoolIdle

\* a caller invokes imageUrlToAscii({url, targetCols, imgW, imgH, charset, ...})
DirectCall ==
    \E url \in ConvertUrls, targetCols \in CallCols, charset \in ConvertCharsets :
        /\ Len(calls) < MaxConversions
        /\ LET st == StartCall([url |-> url, targetCols |-> targetCols,
                                imgW |-> MetaOf(url).w, imgH |-> MetaOf(url).h,
                                charset |-> charset, job |-> 0, imp |-> 0],
                               scratchCanvas, imageCache, decodes, revoked)
           IN  /\ calls' = Append(calls, st.call)
               /\ scratchCanvas' = st.scratch
               /\ imageCache' = st.cache
               /\ decodes' = st.decodes
        /\ UNCHANGED <<ditherVars, quantVars, calibVars, appVars, rowVars, pixVars, poolVars>>

\* a caller invokes releaseCachedImage(url)
DirectRelease ==
    \E url \in ConvertUrls :
        /\ url \in DOMAIN imageCache
        /\ imageCache' = ReleaseCachedImage(imageCache, url)
        /\ UNCHANGED <<decodes, scratchCanvas, calls, ditherVars, quantVars, calibVars, appVars, rowVars, pixVars, poolVars>>

CoreDecodeLoad ==
    \E pid \in DOMAIN decodes :
        DecodeLoad(pid) /\ UNCHANGED <<ditherVars, quantVars, calibVars, appVars, rowVars, pixVars, poolVars>>

CoreDecodeError ==
    \E pid \in DOMAIN decodes :
        DecodeError(pid) /\ UNCHANGED <<ditherVars, quantVars, calibVars, appVars, rowVars, pixVars, poolVars>>

CoreCallResume ==
    \E c \in DOMAIN calls :
        CallResume(c) /\ UNCHANGED <<ditherVars, quantVars, calibVars, appVars, rowVars, pixVars, poolVars>>

CoreCallReject ==
    \E c \in DOMAIN calls :
        CallReject(c) /\ UNCHANGED <<ditherVars, quantVars, calibVars, appVars, rowVars, pixVars, poolVars>>

NextConvert ==
    \/ DirectCall
    \/ DirectRelease
    \/ CoreDecodeLoad
    \/ CoreDecodeError
    \/ CoreCallResume
    \/ CoreCallReject

SpecConvert == InitConvert /\ [][NextConvert]_vars

\* C3: a call of imageUrlToAscii with an empty ramp that has returned has
\* returned the empty result with no sampling step before it: no resize or
\* clear of the scratch surface, no wait for the decode, no draw, no read-back.
C3_EmptyRampNoSampling ==
    \A c \in DOMAIN calls :
        (~HasRamp(calls[c].charset) /\ calls[c].pc = "returned") =>
            /\ calls[c].result = EmptyResult
            /\ calls[c].steps = {}

\* ------------------------------------------------------ AsciiArtApp (SpecApp)
\* DEFAULTS.cols, within the bounded choices.
DefaultCols == MaxCols - 1

\* What a file handed to handleFiles looks like: a supported type, a HEIC/HEIF
\* file, or a type outside SUPPORTED_TYPES.
FileKinds == {"ok", "heic", "type"}

Max(a, b) == IF a < b THEN b ELSE a

\* What the handlers of the current render see, and what the handlers bound at
\* mount (the drop and paste listeners, whose effects have no dependencies) see.
Closure == [imageUrl |-> imageUrl, objectUrl |-> objectUrl, cols |-> cols]
MountClosure == [imageUrl |-> NoUrl, objectUrl |-> NoUrl, cols |-> DefaultCols]

\* reportError(msg): setError(msg); the 5 s timer it sets is ErrorTimeout
ReportError(msg) == msg

\* if (objectUrl) URL.revokeObjectURL(objectUrl)
Revoke(rev, url) == IF url = NoUrl THEN rev ELSE rev \cup {url}

\* A plausible slip: a result is applied whatever request is the active one.
IsSuperseded_Never(active, jobId) == FALSE

\* if (activeConversionRef.current !== jobId) return;
IsSuperseded(active, jobId) == active # jobId

\* A plausible slip: the catch and finally blocks act for every request.
IsLive_Always(active, jobId) == TRUE

\* if (activeConversionRef.current === jobId), in the catch and finally blocks
IsLive(active, jobId) == active = jobId

\* convertToAscii after its await returned: imageUrlToAscii draws and reads the
\* image, and the result is applied unless the request was superseded; finally
\* the active request is reset if it is this one.  st holds the refs, the
\* scratch canvas and the display as they are when the continuation runs.
Settle(call, st) ==
    LET result == ResumedResult(call, st.scratch)
        drop == IsSuperseded(st.active, call.job)
    IN  [call |-> [call EXCEPT !.pc = "settled",
                               !.steps = @ \cup {"draw", "read"},
                               !.result = result,
                               !.outcome = IF drop THEN "discarded" ELSE "applied",
                               !.sawApplied = st.applied.job],
         scratch |-> DrawImage(st.scratch, call.url),
         active |-> IF IsLive(st.active, call.job) THEN 0 ELSE st.active,
         ascii |-> IF drop THEN st.ascii ELSE result,
         applied |-> IF drop THEN st.applied
                     ELSE [job |-> call.job, issued |-> st.issued, prev |-> st.applied.job],
         newestAscii |-> IF drop THEN st.newestAscii ELSE Max(st.newestAscii, result.imp)]

\* convertToAscii(url, w, h), as called from a closure that holds tCols: the refs,
\* the calls, the core state and the display after it.  The call runs up to the
\* await of imageUrlToAscii; when the awaited decode has already resolved, the
\* continuation runs before any other task and is part of the same step.
ConvertToAscii(url, meta, tCols, imp, cache, decs, rev, errs) ==
    LET before == [conversionId |-> conversionId, active |-> activeConversion,
                   calls |-> calls, scratch |-> scratchCanvas, cache |-> cache,
                   decodes |-> decs, errs |-> errs, ascii |-> asciiOut,
                   applied |-> applied, newestAscii |-> newestAscii]
        jobId == conversionId + 1
        st == StartCall([url |-> url, targetCols |-> tCols,
                         imgW |-> meta.w, imgH |-> meta.h,
                         charset |-> AppCharset, job |-> jobId, imp |-> imp],
                        scratchCanvas, cache, decs, rev)
        issued == [before EXCEPT !.conversionId = jobId, !.active = jobId,
                                 !.scratch = st.scratch, !.cache = st.cache,
                                 !.decodes = st.decodes]
        now == Settle(st.call, [scratch |-> st.scratch, active |-> jobId, issued |-> jobId,
                                ascii |-> asciiOut, applied |-> applied,
                                newestAscii |-> newestAscii])
    IN  IF url = NoUrl \/ meta.w = 0 \/ meta.h = 0 THEN before
        ELSE IF st.call.pc = "threw"
        THEN [issued EXCEPT !.active = 0,
                            !.calls = Append(calls, [st.call EXCEPT !.pc = "settled",
                                                                    !.outcome = "error"]),
                            !.errs = ReportError("convert")]
        ELSE IF st.call.pid # 0 /\ st.decodes[st.call.pid].state = "loaded"
        THEN [issued EXCEPT !.active = now.active,
                            !.calls = Append(calls, now.call),
                            !.scratch = now.scratch,
                            !.ascii = now.ascii,
                            !.applied = now.applied,
                            !.newestAscii = now.newestAscii]
        ELSE [issued EXCEPT !.calls = Append(calls, st.call)]

InitApp ==
    /\ DitherIdle
    /\ QuantIdle
    /\ envDocument = TRUE
    /\ envCtx = TRUE
    /\ envMeasure = <<>>
    /\ charsetCalibrationCache = <<>>
    /\ glyphScratch = [canvas |-> FALSE, ctx |-> FALSE]
    /\ calLast = NoCall
    /\ calFirst = <<>>
    /\ CoreIdle
    /\ RowsIdle
    /\ PixIdle
    /\ PoolIdle
    /\ imageUrl = NoUrl
    /\ objectUrl = NoUrl
    /\ imgMeta = NoMeta
    /\ cols = DefaultCols
    /\ asciiOut = EmptyResult
    /\ errorMsg = ""
    /\ revoked = {}
    /\ conversionId = 0
    /\ activeConversion = 0
    /\ timer = NoTimer
    /\ imports = <<>>
    /\ shown = 0
    /\ newestShown = 0
    /\ newestAscii = 0
    /\ applied = NoApplied

\* handleFiles(fileList), from the file input (fresh) or from a drop or paste
\* (the closure of the first render)
HandleFiles ==
    \E fresh \in BOOLEAN, file \in FileKinds :
        /\ Len(imports) < MaxImports
        /\ LET cap == IF fresh THEN Closure ELSE MountClosure
               url == BlobUrl(Len(imports) + 1)
               lic == LoadImageCached(ReleaseCachedImage(imageCache, cap.imageUrl),
                                      decodes, url, revoked)
               errs == IF file = "ok" THEN errorMsg ELSE ReportError(file)
           IN  /\ imports' = Append(imports, [kind |-> "files", url |-> url, pc |-> "meta",
                                              pid |-> lic.pid, cap |-> cap,
                                              reports |-> IF file = "ok" THEN 0 ELSE 1])
               /\ imageCache' = lic.cache
               /\ decodes' = lic.decodes
               /\ errorMsg' = errs
        /\ UNCHANGED <<scratchCanvas, calls, imageUrl, objectUrl, imgMeta, cols,
                       asciiOut, revoked, conversionId, activeConversion, timer, shown,
                       newestShown, newestAscii, applied, ditherVars, quantVars, calibVars, rowVars, pixVars, poolVars>>

\* importFromUrl(), up to its fetch
ImportFromUrl ==
    /\ Len(imports) < MaxImports
    /\ imports' = Append(imports, [kind |-> "url", url |-> NoUrl, pc |-> "fetch",
                                   pid |-> 0, cap |-> Closure, reports |-> 0])
    /\ errorMsg' = ""
    /\ UNCHANGED <<coreVars, imageUrl, objectUrl, imgMeta, cols, asciiOut,
                   revoked, conversionId, activeConversion, timer, shown,
                   newestShown, newestAscii, applied, ditherVars, quantVars, calibVars, rowVars, pixVars, poolVars>>

\* importFromUrl: fetch(clean, { mode: "cors" }) was rejected, and its catch
\* fetches the URL again with { mode: "no-cors" }
UrlFetchRetry ==
    \E i \in DOMAIN imports :
        /\ imports[i].pc = "fetch"
        /\ imports' = [imports EXCEPT ![i].pc = "refetch"]
        /\ UNCHANGED <<coreVars, imageUrl, objectUrl, imgMeta, cols, asciiOut, errorMsg,
                       revoked, conversionId, activeConversion, timer, shown, newestShown,
                       newestAscii, applied, ditherVars, quantVars, calibVars, rowVars, pixVars, poolVars>>

\* importFromUrl: the fetch answered with a blob.  The body of the opaque
\* response of a no-cors fetch reads as empty: its blob is not an image.
UrlFetched ==
    \E i \in DOMAIN imports :
        /\ imports[i].pc \in {"fetch", "refetch"}
        /\ LET url == BlobUrl(i)
               lic == LoadImageCached(ReleaseCachedImage(imageCache, imports[i].cap.imageUrl),
                                      decodes, url, revoked)
           IN  /\ imports' = [imports EXCEPT ![i].url = url, ![i].pc = "meta",
                                             ![i].pid = lic.pid]
               /\ imageCache' = lic.cache
               /\ decodes' = IF imports[i].pc = "refetch"
                             THEN [lic.decodes EXCEPT ![lic.pid].dead = TRUE]
                             ELSE lic.decodes
        /\ UNCHANGED <<scratchCanvas, calls, imageUrl, objectUrl, imgMeta, cols,
                       asciiOut, errorMsg, revoked, conversionId,
                       activeConversion, timer, shown, newestShown, newestAscii, applied,
                       ditherVars, quantVars, calibVars, rowVars, pixVars, poolVars>>

\* importFromUrl: the first fetch answered with an error status, or the second
\* fetch was rejected
UrlFetchFailed ==
    \E i \in DOMAIN imports :
        /\ imports[i].pc \in {"fetch", "refetch"}
        /\ imports' = [imports EXCEPT ![i].pc = "failed", ![i].reports = @ + 1]
        /\ errorMsg' = ReportError("fetch")
        /\ UNCHANGED <<coreVars, imageUrl, objectUrl, imgMeta, cols, asciiOut,
                       revoked, conversionId, activeConversion, timer, shown, newestShown,
                       newestAscii, applied, ditherVars, quantVars, calibVars, rowVars, pixVars, poolVars>>

\* loadDemo(): the button is rendered while no image is loaded
LoadDemo ==
    /\ Len(imports) < MaxImports
    /\ imageUrl = NoUrl
    /\ LET lic == LoadImageCached(ReleaseCachedImage(imageCache, imageUrl),
                                  decodes, DemoUrl, revoked)
       IN  /\ imports' = Append(imports, [kind |-> "demo", url |-> DemoUrl, pc |-> "meta",
                                          pid |-> lic.pid, cap |-> Closure, reports |-> 0])
           /\ imageCache' = lic.cache
           /\ decodes' = lic.decodes
    /\ UNCHANGED <<scratchCanvas, calls, imageUrl, objectUrl, imgMeta, cols,
                   asciiOut, errorMsg, revoked, conversionId, activeConversion,
                   timer, shown, newestShown, newestAscii, applied, ditherVars, quantVars,
                   calibVars, rowVars, pixVars, poolVars>>

\* the continuation of an import once loadImageMeta has resolved: the state is
\* set, convertToAscii is called, and the re-render runs the object-URL cleanup
ImportLoaded ==
    \E i \in DOMAIN imports :
        /\ imports[i].pc = "meta"
        /\ DecodeState(imports[i].pid) = "loaded"
        /\ conversionId < MaxConversions
        /\ LET imp == imports[i]
               rev1 == Revoke(revoked, imp.cap.objectUrl)
               newObj == IF imp.kind = "demo" THEN NoUrl ELSE imp.url
               r == ConvertToAscii(imp.url, MetaOf(imp.url), imp.cap.cols, i, imageCache, decodes, rev1, errorMsg)
               cleanup == objectUrl # NoUrl /\ objectUrl # newObj
           IN  /\ objectUrl' = newObj
               /\ imageUrl' = imp.url
               /\ imgMeta' = MetaOf(imp.url)
               /\ conversionId' = r.conversionId
               /\ activeConversion' = r.active
               /\ calls' = r.calls
               /\ scratchCanvas' = r.scratch
               /\ decodes' = r.decodes
               /\ errorMsg' = r.errs
               /\ asciiOut' = r.ascii
               /\ applied' = r.applied
               /\ newestAscii' = r.newestAscii
               /\ imageCache' = IF cleanup THEN ReleaseCachedImage(r.cache, objectUrl) ELSE r.cache
               /\ revoked' = IF cleanup THEN Revoke(rev1, objectUrl) ELSE rev1
        /\ imports' = [imports EXCEPT ![i].pc = "done"]
        /\ shown' = i
        /\ newestShown' = Max(newestShown, i)
        /\ UNCHANGED <<cols, timer, ditherVars, quantVars, calibVars, rowVars, pixVars, poolVars>>

\* the continuation of an import once loadImageMeta has rejected
ImportFailed ==
    \E i \in DOMAIN imports :
        /\ imports[i].pc = "meta"
        /\ DecodeState(imports[i].pid) = "failed"
        /\ imports' = [imports EXCEPT ![i].pc = "failed",
                                      ![i].reports = IF imports[i].kind = "demo" THEN @ ELSE @ + 1]
        /\ revoked' = IF imports[i].kind = "files" THEN Revoke(revoked, imports[i].url)
                      ELSE revoked
        /\ LET errs == IF imports[i].kind = "files" THEN ReportError("load")
                       ELSE IF imports[i].kind = "url" THEN ReportError("fetch")
                       ELSE errorMsg
           IN  /\ errorMsg' = errs
        /\ UNCHANGED <<coreVars, imageUrl, objectUrl, imgMeta, cols, asciiOut,
                       conversionId, activeConversion, timer, shown, newestShown,
                       newestAscii, applied, ditherVars, quantVars, calibVars, rowVars, pixVars, poolVars>>

\* The settings effect of the re-render after a change of cols: the pending
\* timer is cleared, and a new one is set if an image is loaded.
SettingsTimer(newCols) ==
    IF imageUrl = NoUrl \/ imgMeta.w = 0 \/ imgMeta.h = 0 THEN NoTimer
    ELSE [set |-> TRUE, url |-> imageUrl, meta |-> imgMeta, cols |-> newCols,
          imp |-> shown]

\* setCols(parseInt(e.target.value))
ChangeCols ==
    \E c \in ColsChoices \ {cols} :
        /\ cols' = c
        /\ timer' = SettingsTimer(c)
        /\ UNCHANGED <<coreVars, imageUrl, objectUrl, imgMeta, asciiOut,
                       errorMsg, revoked, conversionId, activeConversion,
                       imports, shown, newestShown, newestAscii, applied,
                       ditherVars, quantVars, calibVars, rowVars, pixVars, poolVars>>

\* the 60 ms timer of the settings effect fires
TimerFire ==
    /\ timer.set
    /\ conversionId < MaxConversions
    /\ LET r == ConvertToAscii(timer.url, timer.meta, timer.cols, timer.imp, imageCache, decodes, revoked, errorMsg)
       IN  /\ conversionId' = r.conversionId
           /\ activeConversion' = r.active
           /\ calls' = r.calls
           /\ scratchCanvas' = r.scratch
           /\ imageCache' = r.cache
           /\ decodes' = r.decodes
           /\ errorMsg' = r.errs
           /\ asciiOut' = r.ascii
           /\ applied' = r.applied
           /\ newestAscii' = r.newestAscii
    /\ timer' = NoTimer
    /\ UNCHANGED <<imageUrl, objectUrl, imgMeta, cols, revoked, imports, shown, newestShown,
                   ditherVars, quantVars, calibVars, rowVars, pixVars, poolVars>>

\* clearImage(), and the object-URL cleanup of the re-render; the button is
\* rendered while an image is loaded
ClearImage ==
    /\ imageUrl # NoUrl
    /\ imageCache' = ReleaseCachedImage(ReleaseCachedImage(imageCache, objectUrl), imageUrl)
    /\ revoked' = Revoke(revoked, objectUrl)
    /\ objectUrl' = NoUrl
    /\ imageUrl' = NoUrl
    /\ imgMeta' = NoMeta
    /\ asciiOut' = EmptyResult
    /\ activeConversion' = 0
    /\ shown' = 0
    /\ UNCHANGED <<decodes, scratchCanvas, calls, cols, errorMsg,
                   conversionId, timer, imports, newestShown, newestAscii, applied,
                   ditherVars, quantVars, calibVars, rowVars, pixVars, poolVars>>

\* the decode a request awaits has resolved: its continuation runs
ConvertResume ==
    \E c \in DOMAIN calls :
        /\ calls[c].pc = "await"
        /\ DecodeState(calls[c].pid) = "loaded"
        /\ LET r == Settle(calls[c], [scratch |-> scratchCanvas, active |-> activeConversion,
                                      issued |-> conversionId, ascii |-> asciiOut,
                                      applied |-> applied, newestAscii |-> newestAscii])
           IN  /\ scratchCanvas' = r.scratch
               /\ calls' = [calls EXCEPT ![c] = r.call]
               /\ asciiOut' = r.ascii
               /\ applied' = r.applied
               /\ newestAscii' = r.newestAscii
               /\ activeConversion' = r.active
        /\ UNCHANGED <<imageCache, decodes, imageUrl, objectUrl, imgMeta, cols,
                       errorMsg, revoked, conversionId, timer, imports, shown,
                       newestShown, ditherVars, quantVars, calibVars, rowVars, pixVars, poolVars>>

\* convertToAscii after its await threw: the error is reported unless the
\* request was superseded
ConvertReject ==
    \E c \in DOMAIN calls :
        /\ calls[c].pc = "await"
        /\ DecodeState(calls[c].pid) = "failed"
        /\ LET jobId == calls[c].job
               live == IsLive(activeConversion, jobId)
               errs == IF live THEN ReportError("convert") ELSE errorMsg
           IN  /\ calls' = [calls EXCEPT ![c].pc = "settled",
                                         ![c].outcome = IF live THEN "error" ELSE "silent",
                                         ![c].sawApplied = applied.job]
               /\ errorMsg' = errs
               /\ activeConversion' = IF live THEN 0 ELSE activeConversion
        /\ UNCHANGED <<imageCache, decodes, scratchCanvas, imageUrl, objectUrl, imgMeta, cols, asciiOut, revoked, conversionId, timer, imports, shown,
                       newestShown, newestAscii, applied, ditherVars, quantVars, calibVars, rowVars, pixVars, poolVars>>

\* a 5 s timer of reportError fires: setError("")
ErrorTimeout ==
    /\ errorMsg # ""
    /\ errorMsg' = ""
    /\ UNCHANGED <<coreVars, imageUrl, objectUrl, imgMeta, cols, asciiOut,
                   revoked, conversionId, activeConversion, timer, imports, shown,
                   newestShown, newestAscii, applied, ditherVars, quantVars, calibVars, rowVars, pixVars, poolVars>>

AppDecodeLoad ==
    \E pid \in DOMAIN decodes :
        DecodeLoad(pid) /\ UNCHANGED <<ditherVars, quantVars, calibVars, appVars, rowVars, pixVars, poolVars>>

AppDecodeError ==
    \E pid \in DOMAIN decodes :
        DecodeError(pid) /\ UNCHANGED <<ditherVars, quantVars, calibVars, appVars, rowVars, pixVars, poolVars>>

NextApp ==
    \/ HandleFiles
    \/ ImportFromUrl
    \/ UrlFetchRetry
    \/ UrlFetched
    \/ UrlFetchFailed
    \/ LoadDemo
    \/ ImportLoaded
    \/ ImportFailed
    \/ ChangeCols
    \/ TimerFire
    \/ ClearImage
    \/ ConvertResume
    \/ ConvertReject
    \/ ErrorTimeout
    \/ AppDecodeLoad
    \/ AppDecodeError

SpecApp == InitApp /\ [][NextApp]_vars

\* ------------------------------------------------- claims: the component
\* C1: a result is written to the display only by the request issued last: when
\* a result is applied no newer request has been issued, so the request ids of
\* the applied results are strictly increasing, whatever order the decodes
\* resolve in.
C1_AppliedIsNewest ==
    applied.job # 0 =>
        /\ applied.job = applied.issued
        /\ applied.prev < applied.job

\* An earlier request resolved after a later one had been applied, and was
\* discarded; the later one's result is the one last applied.
C1_Witness ==
    \E c1, c2 \in DOMAIN calls :
        /\ calls[c1].job < calls[c2].job
        /\ calls[c1].outcome = "discarded"
        /\ calls[c1].sawApplied = calls[c2].job
        /\ calls[c2].outcome = "applied"
        /\ applied.job = calls[c2].job

\* C2: an import started earlier is never displayed after one started later:
\* the displayed image source, and the import the displayed ASCII output was
\* converted from, never go back to an older import.
C2_NewestImportWins ==
    /\ shown # 0 => shown >= newestShown
    /\ ~asciiOut.empty => asciiOut.imp >= newestAscii

\* C19: the decoded-image cache holds no entry for a source that is no longer
\* the current one: every cached URL is the current image source or the source
\* of an import that is still loading.
C19_NoDiscardedEntry ==
    \A url \in DOMAIN imageCache :
        \/ url = imageUrl
        \/ \E i \in DOMAIN imports : imports[i].url = url /\ imports[i].pc = "meta"

\* C20: a failure of an import request is reported exactly once for that
\* request, and no second fetch is made for it without a new user action.
C20_ReportedOnceNoRetry ==
    \A i \in DOMAIN imports :
        /\ imports[i].pc = "failed" => imports[i].reports = 1
        /\ imports[i].pc # "refetch"

\* C21: a conversion that settles after a newer request was issued notifies
\* nobody: whether it succeeded or failed, the step in which it settles leaves
\* the displayed output, the reported error and the active token as they were.
C21_SupersededIsSilent ==
    [][\A c \in DOMAIN calls :
           (/\ calls[c].pc = "await"
            /\ calls'[c].pc = "settled"
            /\ conversionId > calls[c].job) =>
               /\ asciiOut' = asciiOut
               /\ errorMsg' = errorMsg
               /\ activeConversion' = activeConversion
               /\ calls'[c].outcome \in {"discarded", "silent"}]_vars

\* A superseded request failed after the result of a newer request had been
\* displayed: that result is still displayed and no error is shown.
C21_Witness ==
    \E c \in DOMAIN calls :
        /\ calls[c].outcome = "silent"
        /\ ~asciiOut.empty
        /\ asciiOut.job > calls[c].job
        /\ errorMsg = ""

\* C22: the pixel data behind the displayed result has the size of that
\* conversion's grid and holds only that conversion's image, drawn onto the
\* surface as its own resize and clear left it.
C22_OwnPixelsOnly ==
    ~asciiOut.empty =>
        /\ asciiOut.data.w = asciiOut.cols
        /\ asciiOut.data.h = asciiOut.rows
        /\ asciiOut.data.drawn = <<asciiOut.url>>

\* C28: while no image is loaded the displayed output is empty, and no step
\* taken while no image is loaded reports a conversion error: after clearImage
\* neither a conversion in flight nor a pending settings timer writes output
\* or reports an error.
C28_ClearedStaysEmpty ==
    [][imageUrl' = NoUrl =>
          /\ asciiOut'.empty
          /\ (imageUrl = NoUrl /\ errorMsg' = "convert") => errorMsg = "convert"]_vars

\* C29: the cache never holds the promise of a failed decode, and the failure
\* of a decode leaves the cache entry of every other decode in place.
C29_FailedDecodeEvicted ==
    [][/\ \A url \in DOMAIN imageCache' : decodes'[imageCache'[url]].state # "failed"
       /\ \A pid \in DOMAIN decodes :
              (decodes[pid].state = "pending" /\ decodes'[pid].state = "failed") =>
                  \A url \in DOMAIN imageCache :
                      imageCache[url] # pid =>
                          /\ url \in DOMAIN imageCache'
                          /\ imageCache'[url] = imageCache[url]]_vars

\* C13: a conversion invoked with targetCols <= 0 fails fast: it performs no
\* sampling step (no resize or clear of the scratch surface, no wait for the
\* decode, no draw) and never returns a result.
C13_NonPositiveColsFailFast ==
    \A c \in DOMAIN calls :
        calls[c].targetCols <= 0 =>
            /\ calls[c].steps = {}
            /\ calls[c].pc # "returned"

\* C15: every result imageUrlToAscii returns for a non-empty ramp is complete:
\* each of its rows x targetCols cells has r, g, b that are bytes of the pixels
\* read back, also when the call overlapped a call of another grid size.
C15_CompleteGrid ==
    \A c \in DOMAIN calls :
        (calls[c].pc = "returned" /\ HasRamp(calls[c].charset)) =>
            \A idx \in 0..(calls[c].rows * calls[c].targetCols - 1) :
                CellSampled(calls[c].result, idx)

\* --------------------------------------------------- sampling and assembly
\* The largest value of a colour channel: the luminance is divided by 255.
Byte == 255

\* function bright(r, g, b): the luminance, raised to gamma, clamped, inverted.
\* Math.pow(v, gamma) for the gammas 1 and 2.
Pow(v, gamma) == IF gamma = 1 THEN v ELSE RoundDiv(v * v, Scale)

Luminance(r, g, b) == 2126 * r + 7152 * g + 722 * b

Bright(r, g, b, gamma, invert) ==
    LET v0 == RoundDiv(Luminance(r, g, b) * Scale, 10000 * Byte)
        v1 == Clamp01(Pow(v0, gamma))
    IN  IF invert THEN One - v1 ELSE v1

\* the fill loop: brightness[idx] = bright(data[dataIdx], data[dataIdx + 1], data[dataIdx + 2])
FillBrightness(data, gamma, invert) ==
    [i \in DOMAIN data |-> Bright(data[i].r, data[i].g, data[i].b, gamma, invert)]

\* A plausible slip: the data is read as blue, green, red.
CellOf_Bgr(ch, px) == [char |-> ch, r |-> px.b, g |-> px.g, b |-> px.r]

\* rowCells[x] = { char: ch, r, g, b }
CellOf(ch, px) == [char |-> ch, r |-> px.r, g |-> px.g, b |-> px.b]

Black == "rgb(0,0,0)"
WhiteText == "rgb(255,255,255)"

\* A plausible slip: the threshold itself counts as light.
TextRgb_AtLeast(r, g, b) ==
    IF Luminance(r, g, b) >= 6000 * Byte THEN Black ELSE WhiteText

\* const luminance = (0.2126 * r + 0.7152 * g + 0.0722 * b) / 255;
\* luminance > 0.6 ? "rgb(0,0,0)" : "rgb(255,255,255)"
TextRgb(r, g, b) ==
    IF Luminance(r, g, b) > 6000 * Byte THEN Black ELSE WhiteText

\* str.replaceAll(ch, entity) on a string held as a sequence of characters
RECURSIVE ReplaceAll(_, _, _)
ReplaceAll(str, ch, entity) ==
    IF str = <<>> THEN <<>>
    ELSE (IF Head(str) = ch THEN entity ELSE <<Head(str)>>) \o ReplaceAll(Tail(str), ch, entity)

Amp == <<"&", "a", "m", "p", ";">>
Lt == <<"&", "l", "t", ";">>
Gt == <<"&", "g", "t", ";">>
Quot == <<"&", "q", "u", "o", "t", ";">>
Apos == <<"&", "#", "0", "3", "9", ";">>
Nbsp == <<"&", "n", "b", "s", "p", ";">>

\* A plausible slip: the ampersand is replaced after the other characters.
EscapeHtml_AmpLast(str) ==
    ReplaceAll(ReplaceAll(ReplaceAll(ReplaceAll(ReplaceAll(str,
        "<", Lt), ">", Gt), "\"", Quot), "'", Apos), "&", Amp)

\* escapeHtml(str): the five replaceAll passes in the order of the source
EscapeHtml(str) ==
    ReplaceAll(ReplaceAll(ReplaceAll(ReplaceAll(ReplaceAll(str,
        "&", Amp), "<", Lt), ">", Gt), "\"", Quot), "'", Apos)

\* const glyph = ch === " " ? "&nbsp;" : escapeHtml(ch)
GlyphHtml(ch) == IF ch = " " THEN Nbsp ELSE EscapeHtml(<<ch>>)

\* the span appended to rowHtml for a cell
SpanOf(ch, px) ==
    [glyph |-> GlyphHtml(ch),
     background |-> <<px.r, px.g, px.b>>,
     color |-> TextRgb(px.r, px.g, px.b)]

\* cells: for each row the cells of its glyphs and sampled pixels
AssembleCells(lines, data, nCols, nRows) ==
    [y \in 1..nRows |->
        [x \in 1..nCols |-> CellOf(lines[y][x], data[(y - 1) * nCols + x])]]

\* htmlLines: for each row its spans when colorize is set; html is "" otherwise
AssembleHtml(lines, data, nCols, nRows, colorize) ==
    IF colorize
    THEN [y \in 1..nRows |->
             [x \in 1..nCols |-> SpanOf(lines[y][x], data[(y - 1) * nCols + x])]]
    ELSE <<>>

\* renderAsciiToCanvas: the background and text fill styles of each cell
CanvasStyles(cells, colorize) ==
    [y \in DOMAIN cells |->
        [x \in DOMAIN cells[y] |->
            IF colorize
            THEN [background |-> <<cells[y][x].r, cells[y][x].g, cells[y][x].b>>,
                  color |-> TextRgb(cells[y][x].r, cells[y][x].g, cells[y][x].b)]
            ELSE [background |-> <<>>, color |-> "textColor"]]]

\* -------------------------------------------------------------- SpecPixels
\* Pixels on both sides of the contrast threshold: (153,153,153) has luminance
\* 0.6 exactly, (154,154,154) and (0,214,0) are just above it.
Palette ==
    { [r |-> 0, g |-> 0, b |-> 0], [r |-> Byte, g |-> Byte, b |-> Byte],
      [r |-> 153, g |-> 153, b |-> 153], [r |-> 154, g |-> 154, b |-> 154],
      [r |-> Byte, g |-> 0, b |-> 0], [r |-> 0, g |-> 214, b |-> 0] }

\* The pixel data of a grid of n cells: two pixels of the palette alternating.
PixelFields(n) ==
    { [i \in 1..n |-> IF i % 2 = 1 THEN p ELSE q] : p \in Palette, q \in Palette }

\* Ramps with the glyphs that HTML treats specially (the "Detailed (70)" set
\* has all of them) and a single-glyph ramp.
PixelCharsets ==
    { [ramp |-> <<"@">>, levels |-> <<0>>],
      [ramp |-> <<"&", "<", " ">>, levels |-> <<0, Half, One>>],
      [ramp |-> <<">", "\"", "'">>, levels |-> <<0, Half, One>>],
      [ramp |-> <<"#", ";">>, levels |-> <<0, One>>] }

Gammas == {1, 2}

InitPixels ==
    /\ QuantIdle
    /\ CalibIdle
    /\ CoreIdle
    /\ AppIdle
    /\ RowsIdle
    /\ PoolIdle
    /\ dCols \in 1..MaxCols
    /\ dRows \in 1..MaxRows
    /\ dCharset \in PixelCharsets
    /\ pData \in PixelFields(dCols * dRows)
    /\ pGamma \in Gammas
    /\ pInvert \in BOOLEAN
    /\ pColorize \in BOOLEAN
    /\ dInput = <<>>
    /\ brightness = [i \in 1..(dCols * dRows) |-> 0]
    /\ quantized = [i \in 1..(dCols * dRows) |-> 0]
    /\ dPos = 0
    /\ dPhase = "fill"
    /\ dLines = <<>>
    /\ pCells = <<>>
    /\ pHtml = <<>>
    /\ pCanvas = <<>>

\* the loop that fills brightness from the pixels read back
PixelFill ==
    /\ dPhase = "fill"
    /\ brightness' = FillBrightness(pData, pGamma, pInvert)
    /\ dInput' = brightness'
    /\ dPhase' = "quantize"
    /\ UNCHANGED <<dCols, dRows, dCharset, quantized, dPos, dLines, quantVars, calibVars, coreVars, appVars, rowVars, pixVars, poolVars>>

\* the assembly loop: text lines, cells and colorized spans
PixelAssemble ==
    /\ dPhase = "assemble"
    /\ pCells = <<>>
    /\ pData # <<>>
    /\ LET lines == AssembleLines(dCharset.ramp, quantized, dCols, dRows)
       IN  /\ dLines' = lines
           /\ pCells' = AssembleCells(lines, pData, dCols, dRows)
           /\ pHtml' = AssembleHtml(lines, pData, dCols, dRows, pColorize)
    /\ dPhase' = "done"
    /\ UNCHANGED <<dCols, dRows, dCharset, dInput, brightness, quantized, dPos, pData, pGamma, pInvert, pColorize, pCanvas, quantVars, calibVars, coreVars, appVars, rowVars, poolVars>>

\* renderAsciiToCanvas draws the cells of the result
PixelRender ==
    /\ dPhase = "done"
    /\ pCells # <<>>
    /\ pCanvas' = CanvasStyles(pCells, pColorize)
    /\ dPhase' = "rendered"
    /\ UNCHANGED <<dCols, dRows, dCharset, dInput, brightness, quantized, dPos, dLines, pData, pGamma, pInvert, pColorize, pCells, pHtml, quantVars, calibVars, coreVars, appVars, rowVars, poolVars>>

NextPixels == PixelFill \/ DitherSingle \/ DitherStep \/ PixelAssemble \/ PixelRender

SpecPixels == InitPixels /\ [][NextPixels]_vars

\* C16: in a returned grid the glyph of every cell is ramp[quantized index of the
\* cell], the text line holds the same glyph, and the cell's r, g, b are the
\* bytes sampled for that cell, whatever gamma, inversion and dithering did to
\* the brightness field.
C16_GlyphAndSample ==
    pCells # <<>> =>
        \A y \in 1..dRows, x \in 1..dCols :
            LET idx == (y - 1) * dCols + x
            IN  /\ pCells[y][x].char = dCharset.ramp[quantized[idx] + 1]
                /\ dLines[y][x] = pCells[y][x].char
                /\ pCells[y][x].r = pData[idx].r
                /\ pCells[y][x].g = pData[idx].g
                /\ pCells[y][x].b = pData[idx].b

\* A grid was assembled from a red pixel after gamma 2, inversion and a
\* diffusion that changed the brightness field.
C16_Witness ==
    /\ pCells # <<>>
    /\ pInvert
    /\ pGamma = 2
    /\ dCols * dRows > 1
    /\ brightness # dInput
    /\ \E i \in DOMAIN quantized : quantized[i] > 0
    /\ pCells[1][1].r = Byte
    /\ pCells[1][1].b = 0

\* C17: in colorized output (HTML spans and canvas rendering) the text colour
\* of a cell is black exactly when (0.2126 r + 0.7152 g + 0.0722 b) / 255 > 0.6
\* for the cell's sampled pixel and white otherwise; a white pixel gets black
\* text and a black pixel white text, whatever gamma, inversion and glyph.
C17_ContrastRule ==
    \A y \in 1..dRows, x \in 1..dCols :
        LET px == pData[(y - 1) * dCols + x]
            light == 2126 * px.r + 7152 * px.g + 722 * px.b > 6 * Byte * 1000
            expected == IF light THEN "rgb(0,0,0)" ELSE "rgb(255,255,255)"
        IN  /\ pHtml # <<>> =>
                   /\ pHtml[y][x].color = expected
                   /\ pHtml[y][x].background = <<px.r, px.g, px.b>>
                   /\ (px.r = Byte /\ px.g = Byte /\ px.b = Byte) => pHtml[y][x].color = "rgb(0,0,0)"
                   /\ (px.r = 0 /\ px.g = 0 /\ px.b = 0) => pHtml[y][x].color = "rgb(255,255,255)"
            /\ (pCanvas # <<>> /\ pColorize) =>
                   /\ pCanvas[y][x].color = expected
                   /\ pCanvas[y][x].background = <<px.r, px.g, px.b>>

\* A colorized grid with a pixel at the threshold and one just above it was
\* assembled with inversion and gamma 2, and rendered.
C17_Witness ==
    /\ pColorize
    /\ pInvert
    /\ pGamma = 2
    /\ pHtml # <<>>
    /\ pCanvas # <<>>
    /\ dCols * dRows > 1
    /\ pData[1].r = 153
    /\ pData[2].r = 154
    /\ pHtml[1][1].color = "rgb(255,255,255)"

\* C18: the content of every span of the colorized HTML is the escaped glyph:
\* & < > " ' are emitted as &amp; &lt; &gt; &quot; &#039;, a space as &nbsp;,
\* any other glyph as itself; no raw < > " ' or space occurs in it, and an
\* ampersand occurs only as the first character of one of these entities.
C18_GlyphsEscaped ==
    pHtml # <<>> =>
        \A y \in 1..dRows, x \in 1..dCols :
            LET ch == dLines[y][x]
                glyph == pHtml[y][x].glyph
            IN  /\ glyph = (CASE ch = "&" -> <<"&", "a", "m", "p", ";">>
                               [] ch = "<" -> <<"&", "l", "t", ";">>
                               [] ch = ">" -> <<"&", "g", "t", ";">>
                               [] ch = "\"" -> <<"&", "q", "u", "o", "t", ";">>
                               [] ch = "'" -> <<"&", "#", "0", "3", "9", ";">>
                               [] ch = " " -> <<"&", "n", "b", "s", "p", ";">>
                               [] OTHER -> <<ch>>)
                /\ \A i \in DOMAIN glyph :
                       /\ glyph[i] \notin {"<", ">", "\"", "'", " "}
                       /\ glyph[i] = "&" => (i = 1 /\ Len(glyph) > 1)

\* A colorized grid holds an escaped ampersand, an escaped less-than sign and a
\* blank.
C18_Witness ==
    /\ pHtml # <<>>
    /\ \E y \in 1..dRows, x \in 1..dCols : dLines[y][x] = "&" /\ pHtml[y][x].glyph = Amp
    /\ \E y \in 1..dRows, x \in 1..dCols : dLines[y][x] = "<" /\ pHtml[y][x].glyph = Lt
    /\ \E y \in 1..dRows, x \in 1..dCols : dLines[y][x] = " " /\ pHtml[y][x].glyph = Nbsp

\* ----------------------------------------------------- the pooled buffers
\* if (!bufferCache.brightness || bufferCache.brightness.length < size): new
\* arrays of size entries, which start zero-filled
GrowPool(pool, size) ==
    IF Len(pool.brightness) < size
    THEN [brightness |-> [i \in 1..size |-> 0], quantized |-> [i \in 1..size |-> 0]]
    ELSE pool

\* A plausible slip: the pooled arrays are handed out whole.
AcquireAsciiBuffers_Whole(pool, size) ==
    LET grown == GrowPool(pool, size)
    IN  [pool |-> grown, brightness |-> grown.brightness, quantized |-> grown.quantized]

\* acquireAsciiBuffers(size): views of the first size entries of the pooled
\* arrays, holding what the pool holds
AcquireAsciiBuffers(pool, size) ==
    LET grown == GrowPool(pool, size)
    IN  [pool |-> grown,
         brightness |-> SubSeq(grown.brightness, 1, size),
         quantized |-> SubSeq(grown.quantized, 1, size)]

\* brightness.fill(0); quantized.fill(0)
ZeroFill(view) == [i \in DOMAIN view |-> 0]

\* the fill loop: brightness[idx] = bright(r, g, b) for the rows * targetCols cells
FillFrom(view, field) ==
    [i \in DOMAIN view |-> IF i <= Len(field) THEN field[i] ELSE view[i]]

\* A write to a subarray view is a write to the pooled array.
WriteThrough(pool, b, q) ==
    [brightness |-> [i \in DOMAIN pool.brightness |->
                        IF i <= Len(b) THEN b[i] ELSE pool.brightness[i]],
     quantized |-> [i \in DOMAIN pool.quantized |->
                       IF i <= Len(q) THEN q[i] ELSE pool.quantized[i]]]

\* The diffusion loop from cell idx to the end of the grid.
RECURSIVE DitherFrom(_, _, _, _, _, _)
DitherFrom(b, q, idx, nCols, nRows, levels) ==
    IF idx >= nCols * nRows THEN <<b, q>>
    ELSE LET r == DitherCell(b, q, idx, nCols, nRows, levels)
         IN  DitherFrom(r[1], r[2], idx + 1, nCols, nRows, levels)

\* The pair <<brightness, quantized>> of a conversion of field that runs on
\* arrays of exactly rows * targetCols entries, newly allocated.
FreshRun(field, nCols, nRows, charset) ==
    LET zeros == [i \in 1..(nCols * nRows) |-> 0]
    IN  IF IsSingleLevel(Len(charset.ramp)) THEN FillSingle(field, zeros, charset.levels)
        ELSE DitherFrom(field, zeros, 0, nCols, nRows, charset.levels)

\* ------------------------------------------------------------- SpecBuffers
PoolCharsets ==
    { [ramp |-> <<"#">>, levels |-> <<Half>>],
      [ramp |-> <<"#", " ">>, levels |-> <<0, One>>],
      [ramp |-> <<"#", "+", " ">>, levels |-> <<0, Half, One>>] }

\* The sampled brightness of a grid of n cells: two values alternating.
PoolFields(n) ==
    { [i \in 1..n |-> IF i % 2 = 1 THEN v ELSE w] :
          v \in {0, Half + Eighth, One}, w \in {0, Half + Eighth, One} }

InitBuffers ==
    /\ DitherIdle
    /\ QuantIdle
    /\ CalibIdle
    /\ CoreIdle
    /\ AppIdle
    /\ RowsIdle
    /\ PixIdle
    /\ bufferCache = [brightness |-> <<>>, quantized |-> <<>>]
    /\ runs = 0

\* imageUrlToAscii from acquireAsciiBuffers to the end of the fill loop, for a
\* conversion that starts when no other one is between these lines and its return
PoolAcquire ==
    \E nCols \in 1..MaxCols, nRows \in 1..MaxRows, charset \in PoolCharsets :
        \E field \in PoolFields(nCols * nRows) :
            /\ dPhase \in {"idle", "done"}
            /\ runs < MaxRuns
            /\ LET acq == AcquireAsciiBuffers(bufferCache, nCols * nRows)
               IN  /\ bufferCache' = acq.pool
                   /\ brightness' = FillFrom(ZeroFill(acq.brightness), field)
                   /\ quantized' = ZeroFill(acq.quantized)
            /\ dCols' = nCols
            /\ dRows' = nRows
            /\ dCharset' = charset
            /\ dInput' = field
            /\ dPos' = 0
            /\ dPhase' = "quantize"
            /\ dLines' = <<>>
            /\ runs' = runs + 1
            /\ UNCHANGED <<quantVars, calibVars, coreVars, appVars, rowVars, pixVars>>

\* the assembly loop; by now every write to the views has reached the pool
PoolAssemble ==
    /\ dPhase = "assemble"
    /\ runs > 0
    /\ dLines' = AssembleLines(dCharset.ramp, quantized, dCols, dRows)
    /\ bufferCache' = WriteThrough(bufferCache, brightness, quantized)
    /\ dPhase' = "done"
    /\ UNCHANGED <<dCols, dRows, dCharset, dInput, brightness, quantized, dPos, runs,
                   quantVars, calibVars, coreVars, appVars, rowVars, pixVars>>

NextBuffers == PoolAcquire \/ DitherSingle \/ DitherStep \/ PoolAssemble

SpecBuffers == InitBuffers /\ [][NextBuffers]_vars

\* C26: a conversion that runs on the pooled buffers, whatever earlier
\* conversions of other grid sizes left in them, ends with the brightness field,
\* the quantized field and the text of the same conversion run on newly
\* allocated arrays of exactly rows x targetCols entries.
C26_PoolDoesNotLeak ==
    (dPhase = "done" /\ runs > 0) =>
        LET fresh == FreshRun(dInput, dCols, dRows, dCharset)
        IN  /\ brightness = fresh[1]
            /\ quantized = fresh[2]
            /\ dLines = AssembleLines(dCharset.ramp, fresh[2], dCols, dRows)

\* A second conversion of a smaller grid ran on arrays in which a larger one
\* had left non-zero indices, some of them within its own cells.
C26_Witness ==
    /\ dPhase = "done"
    /\ runs = 2
    /\ Len(bufferCache.quantized) > dCols * dRows
    /\ \E i \in (dCols * dRows + 1)..Len(bufferCache.quantized) : bufferCache.quantized[i] > 0
    /\ \E i \in 1..(dCols * dRows) : quantized[i] = 0
    /\ \E i \in 1..(dCols * dRows) : quantized[i] > 0

\* ---------------------------------------------------------------- SpecRows
\* Image sizes and grid widths up to MaxDim, and a 200 x 100 image at 120 columns.
RowInputs ==
    ((1..MaxDim) \X (1..MaxDim) \X (1..MaxDim)) \cup {<<200, 100, 120>>}

InitRows ==
    /\ DitherIdle
    /\ QuantIdle
    /\ CalibIdle
    /\ CoreIdle
    /\ AppIdle
    /\ PixIdle
    /\ PoolIdle
    /\ \E in \in RowInputs :
           /\ rW = in[1]
           /\ rH = in[2]
           /\ rCols = in[3]
    /\ rRows = NoRows

\* const rows = Math.max(1, Math.round(...)), the first statement of imageUrlToAscii
RowsCall ==
    /\ rRows = NoRows
    /\ rRows' = RowsFor(rW, rH, rCols)
    /\ UNCHANGED <<rW, rH, rCols, ditherVars, quantVars, calibVars, coreVars, appVars, pixVars, poolVars>>

NextRows == RowsCall

SpecRows == InitRows /\ [][NextRows]_vars

====
